---- MODULE Spec2Model ----
(***************************************************************************)
(* Model of the voice-interview turn-taking engine:                        *)
(*   useInterviewEngine / useAudioRecorder  (src/unnamed/part_007)         *)
(*   useDeepgram                            (src/src/hooks/useDeepgram.ts) *)
(*   AudioRecorder                          (src/src/lib/audio/recorder.ts)*)
(*   AudioPlayer                            (src/unnamed/part_006)         *)
(*                                                                         *)
(* One action is one JavaScript task: the code that runs from an event     *)
(* (timer, network response, socket event, user request) up to the next    *)
(* await on an external event.  React commits the pending state updates    *)
(* and runs the effects (phaseRef sync, transcript sync, error             *)
(* propagation) before the next external event is handled, so an action    *)
(* ends with the effects applied and phaseRef.current equal to phase.      *)
(* Callbacks memoised by useCallback keep the values of the render that    *)
(* created them; the model carries those captured values explicitly.       *)
(*                                                                         *)
(* The specifications share the actions:                                   *)
(*   Spec     the session over a connection that only the client, or the   *)
(*            server with the normal code, closes;                         *)
(*   SpecTurns  the session over two respondent turns, without stop        *)
(*            request and deadline;                                        *)
(*   SpecNet  the session up to its first listening window over a          *)
(*            connection that fails;                                       *)
(*   SpecDG   the transcription client alone, under an arbitrary caller;   *)
(*   SpecAudio  the same client with the audio chunks the caller hands it; *)
(*   SpecText   the same client with the Results events it receives;       *)
(*   SpecRec  one AudioRecorder object under an arbitrary caller;          *)
(*   SpecQueue  one AudioPlayer object under an arbitrary caller;          *)
(*   SpecChat  the /api/ai/chat route under requests and their retries;    *)
(*   SpecFair  the session without a stop request, with weak fairness of   *)
(*            the responses, the timers and the socket events.             *)
(***************************************************************************)
EXTENDS Integers, Sequences, FiniteSets, TLC

VARIABLES
  phase, messages, currentTranscript, elapsedTime, turnCount,
  isAISpeaking, isUserSpeaking, error,   \* InterviewState (useState)
  timerOn, silence, isEnding, lastTranscript, \* timerRef, silenceTimerRef,
                                         \* isEndingRef, lastTranscriptRef
  rst, gar,                              \* values captured by the memoised
                                         \* resetSilenceTimer / getAIResponse
  tasks,                                 \* async call chains at their await
  dg, rec, pl,                           \* useDeepgram, useAudioRecorder,
                                         \* AudioPlayer
  ar,                                    \* one AudioRecorder object (SpecRec)
  ap,                                    \* one AudioPlayer object (SpecQueue)
  srv,                                   \* the /api/ai/chat route (SpecChat)
  g, h                                   \* history (see GInit, HInit)

vars == << phase, messages, currentTranscript, elapsedTime, turnCount,
           isAISpeaking, isUserSpeaking, error,
           timerOn, silence, isEnding, lastTranscript, rst, gar,
           tasks, dg, rec, pl, ar, ap, srv, g, h >>

engineVars == << phase, messages, currentTranscript, elapsedTime, turnCount,
                 isAISpeaking, isUserSpeaking, error,
                 timerOn, silence, isEnding, lastTranscript, rst, gar,
                 tasks, rec, pl, ar, ap, srv, h >>

----------------------------------------------------------------------------
(* Bounds *)

MaxSockets  == 2   \* WebSocket objects alive (not yet closed) at one time
MaxClosures == 4   \* counted abnormal closures without a successful open
MaxTimers   == 1   \* reconnection timers pending at one time
MaxTokenReqs == 1  \* reconnection connect() calls awaiting their token
MaxFull     == 1   \* length of the finalized transcript buffer
MaxTasks    == 2   \* async call chains of the engine alive at one time
MaxMessages == 3   \* utterances in the transcript
MaxChunks   == 1   \* audio chunks whose buffer conversion is pending
MaxLongFull == 3   \* length of the finalized transcript buffer in SpecText
MaxTurnMessages == 5 \* utterances in the transcript in SpecTurns
MaxStreams  == 2   \* MediaStream objects whose tracks are live at one time
MaxStarts   == 2   \* AudioRecorder.start() calls awaiting getUserMedia
MaxBlobs    == 1   \* chunks kept in AudioRecorder.audioChunks
MaxItems    == 3   \* buffers handed to AudioPlayer.play()
MaxLoops    == 2   \* processQueue() invocations alive at one time
MaxResets   == 1   \* setTimeout callbacks of AudioPlayer.stop() pending
MaxAttempts == 3   \* POST /api/ai/chat requests sent in a session

----------------------------------------------------------------------------
(* Text: a string is a sequence of characters; " " is whitespace. *)

Chars == {"a", " "}
Empty == << >>

RECURSIVE TrimLeft(_)
TrimLeft(s) == IF s = Empty THEN Empty
               ELSE IF Head(s) = " " THEN TrimLeft(Tail(s)) ELSE s

RECURSIVE TrimRight(_)
TrimRight(s) == IF s = Empty THEN Empty
                ELSE IF s[Len(s)] = " " THEN TrimRight(SubSeq(s, 1, Len(s) - 1))
                ELSE s

Trim(s) == TrimRight(TrimLeft(s))

\* alt.transcript values the transcription service sends
EventTexts == { Empty, <<" ">>, <<"a">> }

\* the same with texts that differ in more than being blank (SpecText)
LongTexts == EventTexts \cup { << " ", "a" >>, << "a", "a" >> }

Min(a, b) == IF a < b THEN a ELSE b

RECURSIVE Pow2(_)
Pow2(n) == IF n = 0 THEN 1 ELSE 2 * Pow2(n - 1)

----------------------------------------------------------------------------
(* useDeepgram: the streaming transcription client.                        *)
(* dg.socks[s] is the readyState of WebSocket object s ("FREE" once its    *)
(* close event has been delivered; "ABORTING" is readyState CLOSING of a   *)
(* socket closed before it was open, whose close event carries code 1006), *)
(* dg.wsRef is wsRef.current (0 = null),                                   *)
(* dg.timers the delays of the pending reconnection setTimeout calls,      *)
(* dg.tokenReqs the connect() calls of reconnection timers that await      *)
(* fetchToken, dg.conv the chunk.arrayBuffer() promises of sendAudio that  *)
(* are pending.  A socket in state "CLOSING" was open when disconnect()    *)
(* closed it: the CloseStream message was sent on it before close(1000).   *)

Sockets == 1..MaxSockets

\* error messages (the null of the source is "null")
NoErr       == "null"
TokenErr    == "stt_token_failed"
WsErr       == "deepgram_connection_error"
ReconnErr   == "deepgram_reconnect_failed"

MaxReconnect == 3
BaseDelayMs  == 1000
MaxDelayMs   == 8000
NormalClose  == 1000
AbnormalClose == 1006

DgInit ==
  [ isConnected |-> FALSE, transcript |-> Empty, fullTranscript |-> Empty,
    fullTranscriptRef |-> Empty, error |-> NoErr,
    wsRef |-> 0, reconnectAttempt |-> 0, intentionalClose |-> FALSE,
    socks |-> [s \in Sockets |-> "FREE"],
    timers |-> << >>, tokenReqs |-> 0, conv |-> 0 ]

FreeSockets(d) == { s \in Sockets : d.socks[s] = "FREE" }
NewSocket(d) == CHOOSE s \in FreeSockets(d) : \A t \in FreeSockets(d) : s <= t

\* reset(): clears the text state and the error only
reset(d) ==
  [d EXCEPT !.fullTranscriptRef = Empty, !.fullTranscript = Empty,
            !.transcript = Empty, !.error = NoErr]

\* connect(), lines 131-140: TRUE when it returns without doing anything
connectReturnsEarly(d) ==
  d.wsRef # 0 /\ d.socks[d.wsRef] = "OPEN"

\* connect(), lines 131-143: the part that runs before `await fetchToken()`
connectBegin(d) ==
  LET d1 == IF d.wsRef # 0 /\ d.socks[d.wsRef] = "CONNECTING"
            THEN [d EXCEPT !.socks[d.wsRef] = "ABORTING", !.wsRef = 0]
            ELSE IF d.wsRef # 0 /\ d.socks[d.wsRef] = "CLOSING"
            THEN [d EXCEPT !.wsRef = 0]
            ELSE d
  IN [d1 EXCEPT !.error = NoErr, !.intentionalClose = FALSE]

\* connect(), lines 146-221: the part that runs when fetchToken settles
connectFinish(d, tokenOk) ==
  IF tokenOk
  THEN LET s == NewSocket(d)
       IN [d EXCEPT !.socks[s] = "CONNECTING", !.wsRef = s]
  ELSE [d EXCEPT !.error = TokenErr, !.isConnected = FALSE]

\* ws.onopen
onopen(d) == [d EXCEPT !.isConnected = TRUE, !.reconnectAttempt = 0]

\* variant of onmessage that appends the text of every final event
onmessageAppendsBlank(d, isFinal, text) ==
  IF isFinal
  THEN [d EXCEPT !.fullTranscriptRef = d.fullTranscriptRef \o text,
                 !.fullTranscript = d.fullTranscriptRef \o text,
                 !.transcript = Empty]
  ELSE [d EXCEPT !.transcript = text]

\* ws.onmessage for a Results event with one alternative
onmessage(d, isFinal, text) ==
  IF isFinal
  THEN IF Trim(text) # Empty
       THEN [d EXCEPT !.fullTranscriptRef = d.fullTranscriptRef \o text,
                      !.fullTranscript = d.fullTranscriptRef \o text,
                      !.transcript = Empty]
       ELSE [d EXCEPT !.transcript = Empty]
  ELSE [d EXCEPT !.transcript = text]

\* ws.onerror
onerror(d) == [d EXCEPT !.error = WsErr, !.isConnected = FALSE]

\* delay of the reconnection scheduled when reconnectAttemptRef has become n
reconnectDelay(n) == Min(BaseDelayMs * Pow2(n), MaxDelayMs)

\* variant of the test of line 196 that admits one more attempt
mayReconnectInclusive(d) == d.reconnectAttempt <= MaxReconnect

\* the test of line 196
mayReconnect(d) == d.reconnectAttempt < MaxReconnect

\* ws.onclose of socket s with close code `code`
onclose(d, s, code) ==
  LET d1 == [d EXCEPT !.isConnected = FALSE, !.wsRef = 0, !.socks[s] = "FREE"]
  IN IF ~d1.intentionalClose /\ code # NormalClose
     THEN IF mayReconnect(d1)
          THEN [d1 EXCEPT !.reconnectAttempt = d1.reconnectAttempt + 1,
                          !.timers = Append(d1.timers,
                                       reconnectDelay(d1.reconnectAttempt + 1))]
          ELSE [d1 EXCEPT !.error = ReconnErr]
     ELSE d1

\* disconnect()
disconnect(d) ==
  LET d1 == [d EXCEPT !.intentionalClose = TRUE]
      d2 == IF d1.wsRef # 0
            THEN [d1 EXCEPT !.socks[d1.wsRef] =
                               IF d1.socks[d1.wsRef] = "CONNECTING"
                               THEN "ABORTING" ELSE "CLOSING",
                            !.wsRef = 0]
            ELSE d1
  IN [d2 EXCEPT !.isConnected = FALSE]

\* sendAudio(chunk), lines 247-249: TRUE when it returns at once
sendAudioDrops(d) ==
  IF d.wsRef = 0 THEN TRUE ELSE d.socks[d.wsRef] # "OPEN"

\* sendAudio(chunk), lines 247-251: up to chunk.arrayBuffer()
sendAudio(d) ==
  IF sendAudioDrops(d) THEN d ELSE [d EXCEPT !.conv = d.conv + 1]

\* the test of line 252 in the then-callback: TRUE when it calls send(buffer)
sendAudioTransmits(d) == d.wsRef # 0 /\ d.socks[d.wsRef] = "OPEN"

\* the then-callback of chunk.arrayBuffer(), lines 251-255
sendAudioThen(d) == [d EXCEPT !.conv = d.conv - 1]

----------------------------------------------------------------------------
(* History of the reconnection policy, kept beside the client:             *)
(* g.closures counts the close events with a non-normal code handled while *)
(* reconnection was not suppressed since the last successful open,         *)
(* g.delays lists the delays of the reconnections scheduled since then,    *)
(* g.last is the delay the last such close event scheduled (0 = none).     *)
(* History of the caller's use of the client (SpecDG):                     *)
(* g.off: the caller has called disconnect() and not connect() since,      *)
(* g.pend: for each chunk whose conversion is pending, whether it was      *)
(* handed to sendAudio while g.off (.off) and whether disconnect() was     *)
(* called since it was handed (.cut),                                      *)
(* g.tx: those marks of the chunk transmitted last (<< >> = none yet).     *)
(* History of the Results events since the last reset() (SpecText):        *)
(* g.finals: the texts of the final events with non-blank text, in arrival *)
(* order, g.lastEvent: the last event as << isFinal, text >> (<< >> = no   *)
(* event yet).                                                             *)

GInit == [ closures |-> 0, delays |-> << >>, last |-> 0,
           off |-> FALSE, pend |-> << >>, tx |-> << >>,
           finals |-> << >>, lastEvent |-> << >> ]

GOpen(gg) == [gg EXCEPT !.closures = 0, !.delays = << >>, !.last = 0]

GClose(gg, d, d2, code) ==
  IF ~d.intentionalClose /\ code # NormalClose
  THEN LET n == Len(d2.timers)
           sched == IF n > Len(d.timers) THEN d2.timers[n] ELSE 0
       IN [gg EXCEPT !.closures = gg.closures + 1,
                     !.delays = IF sched # 0 THEN Append(gg.delays, sched)
                                ELSE gg.delays,
                     !.last = sched]
  ELSE gg

\* a Results event arrives
GEvent(gg, isFinal, text) ==
  [gg EXCEPT !.finals = IF isFinal /\ Trim(text) # Empty
                        THEN Append(gg.finals, text) ELSE gg.finals,
             !.lastEvent = << isFinal, text >>]

\* the caller calls reset()
GReset(gg) == [gg EXCEPT !.finals = << >>, !.lastEvent = << >>]

\* the caller calls connect()
GConnect(gg) == [gg EXCEPT !.off = FALSE]

\* the caller calls disconnect()
GDisconnect(gg) ==
  [gg EXCEPT !.off = TRUE,
             !.pend = [k \in 1..Len(gg.pend) |-> [gg.pend[k] EXCEPT !.cut = TRUE]]]

\* the caller hands a chunk to sendAudio, which starts its conversion
GHand(gg) == [gg EXCEPT !.pend = Append(gg.pend, [off |-> gg.off, cut |-> FALSE])]

\* the conversion of the k-th pending chunk completes; sent: it is transmitted
GConverted(gg, k, sent) ==
  [gg EXCEPT !.pend = SubSeq(gg.pend, 1, k - 1)
                        \o SubSeq(gg.pend, k + 1, Len(gg.pend)),
             !.tx = IF sent THEN << gg.pend[k] >> ELSE gg.tx]

----------------------------------------------------------------------------
(* Events of the transcription connection: when each can happen (..En),    *)
(* what the handlers do to the client (..Do).                              *)

\* a close event with a non-normal code can be delivered
AbnormalEn(d, gg) ==
  d.intentionalClose \/ (gg.closures < MaxClosures /\ Len(d.timers) < MaxTimers)

\* the socket s finishes its handshake
SockOpenEn(d, s) == d.socks[s] = "CONNECTING"
SockOpenDo(d, s) == onopen([d EXCEPT !.socks[s] = "OPEN"])

\* a Results event arrives on the open socket s
SockMessageEn(d, s, isFinal, text) ==
  /\ d.socks[s] = "OPEN"
  /\ (isFinal /\ Trim(text) # Empty)
        => Len(d.fullTranscriptRef) + Len(text) <= MaxFull
SockMessageDo(d, isFinal, text) == onmessage(d, isFinal, text)

\* the same with the bound of SpecText
LongMessageEn(d, s, isFinal, text) ==
  /\ d.socks[s] = "OPEN"
  /\ (isFinal /\ Trim(text) # Empty)
        => Len(d.fullTranscriptRef) + Len(text) <= MaxLongFull

\* the connection of s fails (handshake refused, network lost):
\* the browser fires error, then close with code 1006
SockFailEn(d, gg, s) == d.socks[s] \in {"CONNECTING", "OPEN"} /\ AbnormalEn(d, gg)
SockFailDo(d, s) == onclose(onerror(d), s, AbnormalClose)

\* the server closes the open socket s with the normal code
SockServerCloseEn(d, s) == d.socks[s] = "OPEN"
SockServerCloseDo(d, s) == onclose(d, s, NormalClose)

\* the server closes the open socket s with a non-normal code (no error event)
SockServerAbortEn(d, gg, s) == d.socks[s] = "OPEN" /\ AbnormalEn(d, gg)
SockServerAbortDo(d, s) == onclose(d, s, AbnormalClose)

\* the close code of a socket the client closed itself, when the closing
\* handshake completes: 1000 as passed to close(), 1006 when the socket was
\* closed before it was open
closeCodeOf(d, s) ==
  IF d.socks[s] = "ABORTING" THEN AbnormalClose ELSE NormalClose

\* the close event of a socket the client closed itself
SockClosedEn(d, gg, s) ==
  /\ d.socks[s] \in {"CLOSING", "ABORTING"}
  /\ d.socks[s] = "ABORTING" => AbnormalEn(d, gg)
SockClosedDo(d, s) == onclose(d, s, closeCodeOf(d, s))

\* the closing handshake of s is not answered: close event with code 1006
SockCloseLostEn(d, gg, s) == d.socks[s] = "CLOSING" /\ AbnormalEn(d, gg)
SockCloseLostDo(d, s) == onclose(d, s, AbnormalClose)

RemoveAt(seq, i) == SubSeq(seq, 1, i - 1) \o SubSeq(seq, i + 1, Len(seq))

\* a connect() call up to its await; the token request is counted in tokenReqs
connectCallEn(d) == connectReturnsEarly(d) \/ d.tokenReqs < MaxTokenReqs
connectCall(d) ==
  IF connectReturnsEarly(d) THEN d
  ELSE [connectBegin(d) EXCEPT !.tokenReqs = d.tokenReqs + 1]

\* a reconnection timer fires and calls connect()
ReconnectTimerEn(d, i) ==
  i \in 1..Len(d.timers) /\ connectCallEn(d)
ReconnectTimerDo(d, i) == connectCall([d EXCEPT !.timers = RemoveAt(d.timers, i)])

\* fetchToken of such a connect() settles
ReconnectTokenEn(d, tokenOk) ==
  d.tokenReqs > 0 /\ (tokenOk => FreeSockets(d) # {})
ReconnectTokenDo(d, tokenOk) ==
  connectFinish([d EXCEPT !.tokenReqs = d.tokenReqs - 1], tokenOk)

----------------------------------------------------------------------------
(* useAudioRecorder over AudioRecorder.                                    *)
(* rec.ref is recorderRef.current: "none" (null), "rec" (recording),       *)
(* "stopping" (stop() called, the recorder's stop event not yet fired;     *)
(* its `recording` flag is still true), "off" (not recording).             *)
(* rec.stopEvt: a stop event is pending; rec.waiter: the call chain whose  *)
(* stopRecording() promise that event resolves.  rec.orphan: an            *)
(* AudioRecorder that is recording was replaced in recorderRef without     *)
(* being destroyed: it keeps recording beside the current one.             *)

MicErr == "microphone_failed"

RecInit ==
  [ isRecording |-> FALSE, error |-> NoErr, ref |-> "none",
    stopEvt |-> FALSE, waiter |-> 0, orphan |-> FALSE ]

\* recorderRef.current && recorderRef.current.isRecording()
recorderIsRecording(r) == r.ref \in {"rec", "stopping"}

\* startRecording() up to `await recorder.start()`: destroys the old recorder
startRecordingBegin(r) ==
  [r EXCEPT !.error = NoErr,
            !.ref = IF r.ref = "none" THEN "none" ELSE "off"]

\* getUserMedia resolved: AudioRecorder.start() completes, then
\* `recorderRef.current = recorder` (line 546) overwrites the reference
startRecordingOk(r) ==
  [r EXCEPT !.ref = "rec", !.isRecording = TRUE,
            !.orphan = r.orphan \/ r.ref = "rec"]

\* getUserMedia rejected: the catch of startRecording()
startRecordingFail(r) ==
  [r EXCEPT !.error = MicErr, !.isRecording = FALSE]

\* stopRecording() of chain i on a recording recorder, up to its await
stopRecordingBegin(r, i) ==
  [r EXCEPT !.ref = "stopping", !.stopEvt = TRUE, !.waiter = i]

\* the recorder's stop event: onstop, then the rest of stopRecording()
stopRecordingEnd(r) ==
  [r EXCEPT !.ref = IF r.ref = "stopping" THEN "off" ELSE r.ref,
            !.stopEvt = FALSE, !.waiter = 0, !.isRecording = FALSE]

----------------------------------------------------------------------------
(* AudioRecorder (recorder.ts): one object and the media objects it has    *)
(* created.  A MediaStream and the MediaRecorder built on it share an id.  *)
(* ar.recording, ar.stream, ar.mediaRecorder (0 = null), ar.audioChunks (a *)
(* count) and ar.dataCallback (set or null) are the fields of the class.   *)
(* ar.tracks[s]: "live" while the tracks of stream s are not stopped (the  *)
(* microphone is held), else "free"; ar.state[s]: MediaRecorder.state;     *)
(* ar.evt[s]: the stop event of recorder s is pending; ar.handler[s]: its  *)
(* onstop handler: "none", "open" (the stop() promise it resolves is       *)
(* pending) or "done" (that promise is settled); ar.starts: start() calls  *)
(* awaiting getUserMedia; ar.last: the outcome of the call that settled    *)
(* last; ar.hung: a pending stop() promise has lost its onstop handler and *)
(* can never settle.                                                       *)

Streams == 1..MaxStreams

AlreadyErr      == "already_recording"
NotRecordingErr == "not_recording"
InvalidStateErr == "InvalidStateError"

ArInit ==
  [ recording |-> FALSE, stream |-> 0, mediaRecorder |-> 0,
    audioChunks |-> 0, dataCallback |-> FALSE,
    tracks |-> [ s \in Streams |-> "free" ],
    state |-> [ s \in Streams |-> "inactive" ],
    evt |-> [ s \in Streams |-> FALSE ],
    handler |-> [ s \in Streams |-> "none" ],
    starts |-> 0, last |-> "none", hung |-> FALSE ]

\* the stream ids getUserMedia can hand out
FreeStreams(a) == { s \in Streams : a.tracks[s] = "free" /\ ~a.evt[s] }
NewStream(a) == CHOOSE s \in FreeStreams(a) : \A t \in FreeStreams(a) : s <= t

\* MediaRecorder.stop() of recorder s in state recording
mediaRecorderStop(a, s) ==
  [a EXCEPT !.state[s] = "inactive", !.evt[s] = TRUE]

\* start(), lines 49-54: up to `await getUserMedia(..)`
start(a) ==
  IF a.recording THEN [a EXCEPT !.last = AlreadyErr]
  ELSE [a EXCEPT !.starts = a.starts + 1]

\* start(), lines 54-89, when getUserMedia resolves
startGranted(a) ==
  LET s == NewStream(a)
  IN [a EXCEPT !.starts = a.starts - 1, !.tracks[s] = "live",
               !.stream = s, !.audioChunks = 0, !.mediaRecorder = s,
               !.state[s] = "recording", !.handler[s] = "none",
               !.recording = TRUE, !.last = "started"]

\* start(), lines 61-67, when getUserMedia rejects
startDenied(a) ==
  [a EXCEPT !.starts = a.starts - 1, !.last = MicErr]

\* stop(), lines 95-113.  throws: MediaRecorder.stop() on a recorder that is
\* already inactive raises InvalidStateError, which rejects the promise
\* (some builds ignore the call)
stop(a, throws) ==
  IF a.mediaRecorder = 0 \/ ~a.recording
  THEN [a EXCEPT !.last = NotRecordingErr]
  ELSE LET s == a.mediaRecorder
           a1 == [a EXCEPT !.hung = a.hung \/ a.handler[s] = "open",
                           !.handler[s] = "open"]
       IN IF a1.state[s] = "recording" THEN mediaRecorderStop(a1, s)
          ELSE IF throws
          THEN [a1 EXCEPT !.handler[s] = "done", !.last = InvalidStateErr]
          ELSE a1

\* the stop event of recorder s: mediaRecorder.onstop, lines 102-109
onstop(a, s) ==
  LET a1 == [a EXCEPT !.evt[s] = FALSE]
  IN IF a.handler[s] = "none" THEN a1
     ELSE [a1 EXCEPT !.audioChunks = 0, !.recording = FALSE,
                     !.handler[s] = "done",
                     !.last = IF a.handler[s] = "open" THEN "stopped"
                              ELSE a.last]

\* mediaRecorder.ondataavailable of recorder s, lines 76-81
ondataavailable(a, s) ==
  [a EXCEPT !.audioChunks = a.audioChunks + 1]

\* mediaRecorder.onerror of recorder s, lines 83-85
mediaRecorderOnerror(a, s) ==
  [a EXCEPT !.state[s] = "inactive", !.recording = FALSE]

\* onDataAvailable(callback), lines 126-128
onDataAvailable(a) == [a EXCEPT !.dataCallback = TRUE]

\* isRecording()
isRecording(a) == a.recording

\* destroy(), lines 134-152; a recorder whose tracks are stopped stops
destroy(a) ==
  LET s == a.stream
      a1 == IF s # 0 /\ a.state[s] = "recording" THEN mediaRecorderStop(a, s)
            ELSE a
      a2 == IF s # 0 THEN [a1 EXCEPT !.tracks[s] = "free", !.stream = 0]
            ELSE a1
  IN [a2 EXCEPT !.mediaRecorder = 0, !.audioChunks = 0,
                !.dataCallback = FALSE, !.recording = FALSE]

----------------------------------------------------------------------------
(* AudioPlayer.  pl.ctx: playerRef.current exists; pl.currentSource: the   *)
(* call chain whose source node is currentSource (0 = null);               *)
(* pl.resetPending: the setTimeout of stop() has not run yet.              *)

PlInit ==
  [ ctx |-> FALSE, isPlaying |-> FALSE, aborted |-> FALSE, queue |-> 0,
    currentSource |-> 0, resetPending |-> FALSE ]

\* new AudioPlayer(); init()
newPlayer == [PlInit EXCEPT !.ctx = TRUE]

----------------------------------------------------------------------------
(* AudioPlayer as a class (part_006 561-715): one object, the buffers      *)
(* numbered 1, 2, .. in the order of the play() calls.                     *)
(* ap.audioContext (exists or null), ap.audioQueue, ap.isPlaying,          *)
(* ap.aborted are the fields of the class; ap.currentSource is the loop    *)
(* whose source node the field holds (0 = null).                           *)
(* ap.loops[k]: a processQueue() invocation, waiting at pc                 *)
(*   resume  audioContext.resume()                                         *)
(*   decode  playBuffer, decodeAudioData                                   *)
(*   sound   playBuffer, its source node is playing                        *)
(*   cut     playBuffer, source.stop() was called, onended is pending      *)
(* with the buffer it has taken from the queue.  ap.resets: the pending    *)
(* setTimeout callbacks of stop().  History: ap.enq: the number of play()  *)
(* calls; ap.started: the buffer whose source node was started last;       *)
(* ap.mark: the value of ap.enq at the last stop(); ap.stopped: stop() was *)
(* called; ap.failed: the buffer whose playBuffer() rejected last.         *)

Items == 1..MaxItems
Loops == 1..MaxLoops
FreeLoop == [ pc |-> "free", item |-> 0 ]

ApInit ==
  [ audioContext |-> FALSE, audioQueue |-> << >>, isPlaying |-> FALSE,
    currentSource |-> 0, aborted |-> FALSE,
    loops |-> [ k \in Loops |-> FreeLoop ], resets |-> 0,
    enq |-> 0, started |-> 0, mark |-> 0, stopped |-> FALSE, failed |-> 0 ]

IdleLoops(p) == { k \in Loops : p.loops[k].pc = "free" }
NewLoop(p) == CHOOSE k \in IdleLoops(p) : \A j \in IdleLoops(p) : k <= j

\* playBuffer, lines 640-643: resolves at once, playing nothing
playBufferSkips(p) == ~p.audioContext \/ p.aborted

\* playBuffer(data) of loop k, lines 645-648: up to `await decodeAudioData`
playBuffer(p, k, x) ==
  [p EXCEPT !.loops[k] = [ pc |-> "decode", item |-> x ]]

\* processQueue: the while loop of invocation k, from its test; suspended:
\* the loop finds audioContext.state = "suspended"
processQueue(p, k, suspended) ==
  IF Len(p.audioQueue) > 0 /\ ~p.aborted
  THEN LET x == Head(p.audioQueue)
           p1 == [p EXCEPT !.audioQueue = Tail(p.audioQueue)]
       IN IF suspended
          THEN [p1 EXCEPT !.loops[k] = [ pc |-> "resume", item |-> x ]]
          ELSE playBuffer(p1, k, x)
  ELSE [p EXCEPT !.isPlaying = FALSE, !.loops[k] = FreeLoop]

\* variant of playerPlay that starts processQueue() whether or not the
\* player is playing
playerPlayAlways(p, x, suspended) ==
  LET p1 == [p EXCEPT !.audioContext = TRUE,
                      !.audioQueue = Append(p.audioQueue, x), !.enq = x]
  IN IF IdleLoops(p1) # {}
     THEN processQueue([p1 EXCEPT !.isPlaying = TRUE], NewLoop(p1), suspended)
     ELSE p1

\* play(audioData), lines 590-600, with init() and the start of processQueue
playerPlay(p, x, suspended) ==
  LET p1 == [p EXCEPT !.audioContext = TRUE,
                      !.audioQueue = Append(p.audioQueue, x), !.enq = x]
  IN IF ~p1.isPlaying
     THEN processQueue([p1 EXCEPT !.isPlaying = TRUE], NewLoop(p1), suspended)
     ELSE p1

\* audioContext.resume() of loop k settles, lines 613-620
resumed(p, k, ok, suspended) ==
  IF ok /\ ~playBufferSkips(p) THEN playBuffer(p, k, p.loops[k].item)
  ELSE processQueue(p, k, suspended)

\* variant of decoded in which processQueue() does not catch the rejection
\* of playBuffer(): the loop ends there and play() rejects
decodedPropagates(p, k, ok, suspended) ==
  IF ok
  THEN [p EXCEPT !.currentSource = k, !.loops[k].pc = "sound",
                 !.started = p.loops[k].item]
  ELSE [p EXCEPT !.currentSource = 0, !.failed = p.loops[k].item,
                 !.loops[k] = FreeLoop]

\* decodeAudioData of loop k settles, lines 648-664; on a failure (of the
\* decoding or of source.start) playBuffer() rejects and the catch of
\* processQueue, lines 624-629, goes on with the loop
decoded(p, k, ok, suspended) ==
  IF ok
  THEN [p EXCEPT !.currentSource = k, !.loops[k].pc = "sound",
                 !.started = p.loops[k].item]
  ELSE processQueue([p EXCEPT !.currentSource = 0,
                              !.failed = p.loops[k].item], k, suspended)

\* source.onended of loop k, lines 655-658, then the loop goes on
onended(p, k, suspended) ==
  processQueue([p EXCEPT !.currentSource = 0], k, suspended)

\* stop(), lines 671-691
stopPlayer(p) ==
  LET c == p.currentSource
      l1 == IF c # 0 /\ p.loops[c].pc = "sound"
            THEN [p.loops EXCEPT ![c].pc = "cut"] ELSE p.loops
  IN [p EXCEPT !.aborted = TRUE, !.audioQueue = << >>, !.loops = l1,
               !.currentSource = 0, !.isPlaying = FALSE,
               !.resets = p.resets + 1,
               !.mark = p.enq, !.stopped = TRUE]

\* the setTimeout callback of stop(), lines 688-690
resetAborted(p) == [p EXCEPT !.aborted = FALSE, !.resets = p.resets - 1]

----------------------------------------------------------------------------
(* The engine.  A call chain waits at tasks[i].pc:                         *)
(*   startFetch  startInterview, the /start request                        *)
(*   tts         speakText, the /api/ai/tts request                        *)
(*   decode      playBuffer, decodeAudioData                               *)
(*   sound       playBuffer, the source node is playing                    *)
(*   cut         playBuffer, source.stop() was called, onended is pending  *)
(*   token       startListening, connect() awaiting fetchToken             *)
(*   gum         startListening, startRecording() awaiting getUserMedia    *)
(*   recStop     handleUserFinishedSpeaking, awaiting stopRecording()      *)
(*   chat        getAIResponse, the /api/ai/chat request                   *)
(*   endRecStop  endInterviewInternal, awaiting stopRecording()            *)
(*   score       endInterviewInternal, the /score request                  *)
(* tasks[i].cl is the resetSilenceTimer the chain's startListening calls   *)
(* (for recStop: the one whose timer started the chain).  Such a closure   *)
(* is << >> when it captured recorder.isRecording = false (its timer does  *)
(* nothing), else << F, G >>: F the deepgram.fullTranscript its            *)
(* handleUserFinishedSpeaking reads, G the closure its getAIResponse       *)
(* reaches through startListening.                                         *)

MAX_INTERVIEW_DURATION_MS == 300000
TickMs == 1000

Tasks == 1..MaxTasks
Inert == << >>
FreeTask == [ pc |-> "free", cl |-> Inert, shouldEnd |-> FALSE ]
SilenceOff == [ on |-> FALSE, cl |-> Inert ]

StartErr == "start_failed"
ChatErr  == "chat_failed"

\* utterance texts of the interviewer
FirstMessage == << "q" >>
AiTexts == { << "q" >> }

Terminal == { "completed", "error" }

\* the configured question count of the project (the engine never reads it)
TotalQuestions == 0

\* the turn maximum, /api/ai/chat line 109
maxTurns(totalQuestions) == totalQuestions * 3 + 2

----------------------------------------------------------------------------
(* POST /api/ai/chat (chat/route.ts), the turn generator's nextTurn, on    *)
(* the persisted session.  srv.transcripts, srv.turnCount and srv.status   *)
(* are the rows the route reads and writes.  srv.reqs[a] is the a-th       *)
(* request sent, waiting at pc                                             *)
(*   find        prisma.aIInterviewSession.findUnique                      *)
(*   respondent  prisma.transcript.create of the respondent utterance      *)
(*   generate    the generation of the reply                               *)
(*   ai          prisma.transcript.create of the reply                     *)
(*   update      prisma.aIInterviewSession.update                          *)
(* with the turn count of the session row it has read and its shouldEnd.   *)
(* History: srv.turns: the number of nextTurn requests of the client, a    *)
(* retry not counted; reqs[a].turn and transcripts[k].turn: the nextTurn   *)
(* request an attempt or a row belongs to.                                 *)

Attempts == 1..MaxAttempts
NoReq == [ pc |-> "none", turn |-> 0, read |-> 0, shouldEnd |-> FALSE,
           status |-> 0 ]

SrvInit ==
  [ transcripts |-> << >>, turnCount |-> 0, status |-> "IN_PROGRESS",
    reqs |-> [ a \in Attempts |-> NoReq ], sent |-> 0, turns |-> 0 ]

\* the route receives a request, lines 6-39: up to `await findUnique`
postReceived(s, retry) ==
  LET a == s.sent + 1
      t == IF retry THEN s.turns ELSE s.turns + 1
  IN [s EXCEPT !.sent = a, !.turns = t,
               !.reqs[a] = [NoReq EXCEPT !.pc = "find", !.turn = t]]

\* findUnique resolves, lines 41-65: up to the first transcript.create
postFound(s, a) ==
  IF s.status # "IN_PROGRESS"
  THEN [s EXCEPT !.reqs[a].pc = "done", !.reqs[a].status = 400]
  ELSE [s EXCEPT !.reqs[a].pc = "respondent", !.reqs[a].read = s.turnCount]

\* the respondent utterance is stored, lines 57-65
postRespondent(s, a) ==
  [s EXCEPT !.transcripts = Append(s.transcripts,
                 [ speaker |-> "respondent", turn |-> s.reqs[a].turn ]),
            !.reqs[a].pc = "generate"]

\* the reply is generated, lines 73-149 (the request body of the engine has
\* no turnCount and no elapsedSeconds), or the generation fails, 182-187
postGenerated(s, a, ok) ==
  IF ~ok THEN [s EXCEPT !.reqs[a].pc = "done", !.reqs[a].status = 500]
  ELSE [s EXCEPT !.reqs[a].pc = "ai",
                 !.reqs[a].shouldEnd =
                    (s.reqs[a].read >= maxTurns(TotalQuestions))]

\* the reply is stored, lines 152-160
postAi(s, a) ==
  [s EXCEPT !.transcripts = Append(s.transcripts,
                 [ speaker |-> "ai", turn |-> s.reqs[a].turn ]),
            !.reqs[a].pc = "update"]

\* the session row is updated and the response is sent, lines 163-181
postUpdated(s, a) ==
  [s EXCEPT !.turnCount = s.turnCount + 1,
            !.status = IF s.reqs[a].shouldEnd THEN "COMPLETED" ELSE s.status,
            !.reqs[a].pc = "done", !.reqs[a].status = 200]

\* History of the session: h.deadline: a tick has found the budget used up
\* in phase interviewing; h.stopped: a stop was requested in a non-terminal
\* phase; h.eot: the last step ran handleUserFinishedSpeaking; and of the
\* current listening window (since startListening set isUserSpeaking), kept
\* in SpecTurns:
\* h.spoke: an event with non-blank text arrived, h.finalSeen: a final event
\* arrived, h.late: an event arrived after the silence timer was last armed.
\* h.ttsFailed: the last step handled a failed /api/ai/tts request.
\* h.answered: a respondent utterance was appended since the current
\* listening window was opened.
\* h.again: the last step called endInterviewInternal with isEndingRef set.
HInit == [ deadline |-> FALSE, stopped |-> FALSE, eot |-> FALSE,
           ttsFailed |-> FALSE, answered |-> FALSE, again |-> FALSE,
           spoke |-> FALSE, finalSeen |-> FALSE, late |-> FALSE ]

\* a Results event arrives; listening: a listening window is open
HEvent(hh, listening, isFinal, text) ==
  IF ~listening THEN hh
  ELSE [hh EXCEPT !.spoke = hh.spoke \/ Trim(text) # Empty,
                  !.finalSeen = hh.finalSeen \/ isFinal,
                  !.late = TRUE]

\* Date.now() at an append, as the last reading of the session clock
now(st) == st.elapsedTime

Cur ==
  [ phase |-> phase, messages |-> messages,
    currentTranscript |-> currentTranscript, elapsedTime |-> elapsedTime,
    turnCount |-> turnCount, isAISpeaking |-> isAISpeaking,
    isUserSpeaking |-> isUserSpeaking, error |-> error,
    timerOn |-> timerOn, silence |-> silence, isEnding |-> isEnding,
    lastTranscript |-> lastTranscript, rst |-> rst, gar |-> gar,
    tasks |-> tasks, dg |-> dg, rec |-> rec, pl |-> pl, ar |-> ar,
    ap |-> ap, srv |-> srv,
    h |-> [h EXCEPT !.eot = FALSE, !.ttsFailed = FALSE, !.again = FALSE] ]

FreeSlots(st) == { i \in Tasks : st.tasks[i].pc = "free" }
NewTask(st) == CHOOSE i \in FreeSlots(st) : \A j \in FreeSlots(st) : i <= j
Release(st, i) == IF i = 0 THEN st ELSE [st EXCEPT !.tasks[i] = FreeTask]
\* the slot a new call chain takes (0 when none is free)
Slot(st) == IF FreeSlots(st) = {} THEN 0 ELSE NewTask(st)
SetPc(st, i, pc) == [st EXCEPT !.tasks[i].pc = pc]

\* phaseRef.current, synchronised with phase by the effect of lines 81-83
phaseRef(st) == st.phase

\* resetSilenceTimer of closure cl: clears the pending timer, arms a new one
resetSilenceTimer(st, cl) ==
  [st EXCEPT !.silence = [ on |-> TRUE, cl |-> cl ], !.h.late = FALSE]

\* startListening, lines 286-287, after startRecording() has settled
listenTail(st, i) == Release(resetSilenceTimer(st, st.tasks[i].cl), i)

\* startListening, lines 279-284, after connect() has settled
afterConnect(st, i) ==
  SetPc([st EXCEPT !.rec = startRecordingBegin(st.rec)], i, "gum")

\* startListening, lines 269-277
startListening(st, i) ==
  IF phaseRef(st) # "interviewing" THEN Release(st, i)
  ELSE LET s1 == [st EXCEPT !.isUserSpeaking = TRUE,
                            !.currentTranscript = Empty,
                            !.h.spoke = FALSE, !.h.finalSeen = FALSE,
                            !.h.late = FALSE, !.h.answered = FALSE]
       IN IF connectReturnsEarly(s1.dg) THEN afterConnect(s1, i)
          ELSE SetPc([s1 EXCEPT !.dg = connectBegin(s1.dg)], i, "token")

\* AudioPlayer.stop() through playerRef.current?.stop()
playerStop(st) ==
  IF ~st.pl.ctx THEN st
  ELSE LET c == st.pl.currentSource
           t1 == IF c # 0 /\ st.tasks[c].pc = "sound"
                 THEN [st.tasks EXCEPT ![c].pc = "cut"] ELSE st.tasks
       IN [st EXCEPT !.tasks = t1,
                     !.pl = [st.pl EXCEPT !.aborted = TRUE, !.queue = 0,
                                          !.currentSource = 0,
                                          !.isPlaying = FALSE,
                                          !.resetPending = TRUE]]

\* chain i calls stopRecording() on a recording recorder; a chain that was
\* waiting for the same stop event loses its onstop handler and never resumes
\* (MediaRecorder.stop() on a recorder that is already stopping is ignored)
stopRecordingCall(st, i, pc) ==
  LET w == st.rec.waiter
      t1 == IF w # 0 /\ w # i THEN [st.tasks EXCEPT ![w] = FreeTask]
            ELSE st.tasks
  IN [st EXCEPT !.tasks = [t1 EXCEPT ![i].pc = pc],
                !.rec = stopRecordingBegin(st.rec, i)]

\* endInterviewInternal, lines 405-431: the teardown after the recorder stop
endTail(st, i) ==
  LET s1 == playerStop([st EXCEPT !.dg = disconnect(st.dg)])
  IN SetPc([s1 EXCEPT !.silence = SilenceOff, !.isAISpeaking = FALSE,
                      !.isUserSpeaking = FALSE], i, "score")

\* variant of endInterviewInternal without the test of isEndingRef
endInterviewInternalUnguarded(st, i, recFlag) ==
  LET s1 == [st EXCEPT !.isEnding = TRUE, !.phase = "processing",
                       !.timerOn = FALSE, !.h.again = st.isEnding]
  IN IF i = 0 THEN st
     ELSE IF recFlag /\ recorderIsRecording(s1.rec)
     THEN stopRecordingCall(s1, i, "endRecStop")
     ELSE endTail(s1, i)

\* endInterviewInternal, lines 393-403; recFlag is the recorder.isRecording
\* its closure captured
endInterviewInternal(st, i, recFlag) ==
  IF st.isEnding THEN Release([st EXCEPT !.h.again = TRUE], i)
  ELSE LET s1 == [st EXCEPT !.isEnding = TRUE, !.phase = "processing",
                            !.timerOn = FALSE]
       IN IF recFlag /\ recorderIsRecording(s1.rec)
          THEN stopRecordingCall(s1, i, "endRecStop")
          ELSE endTail(s1, i)

\* variant of afterSpeak in which speakText leaves isAISpeaking set
afterSpeakKeepsFlag(st, i) ==
  IF st.tasks[i].shouldEnd
  THEN endInterviewInternal(st, i, st.tasks[i].cl # Inert)
  ELSE startListening(st, i)

\* the rest of getAIResponse / startInterview after `await speakText(..)`
afterSpeak(st, i) ==
  LET s1 == [st EXCEPT !.isAISpeaking = FALSE]
  IN IF s1.tasks[i].shouldEnd
     THEN endInterviewInternal(s1, i, s1.tasks[i].cl # Inert)
     ELSE startListening(s1, i)

\* variant of speakTextFailed in which speakText rethrows and the catch of
\* its caller ends the session
speakTextFailedFatal(st, i) ==
  Release([st EXCEPT !.h.ttsFailed = TRUE, !.isAISpeaking = FALSE,
                     !.error = "tts_failed", !.phase = "error"], i)

\* speakText, lines 128-144, when the /api/ai/tts request fails: the catch
\* logs, the finally clears isAISpeaking, and the caller goes on
speakTextFailed(st, i) ==
  afterSpeak([st EXCEPT !.h.ttsFailed = TRUE], i)

\* processQueue: the while loop, from its test
processLoop(st, i) ==
  IF st.pl.queue > 0 /\ ~st.pl.aborted
  THEN SetPc([st EXCEPT !.pl.queue = st.pl.queue - 1], i, "decode")
  ELSE afterSpeak([st EXCEPT !.pl.isPlaying = FALSE], i)

\* AudioPlayer.play(audioData) called by speakText of chain i
play(st, i) ==
  LET s1 == [st EXCEPT !.pl.queue = st.pl.queue + 1]
  IN IF ~s1.pl.isPlaying
     THEN processLoop([s1 EXCEPT !.pl.isPlaying = TRUE], i)
     ELSE afterSpeak(s1, i)

\* speakText up to its fetch
speakText(st, i) == SetPc([st EXCEPT !.isAISpeaking = TRUE], i, "tts")

\* getAIResponse, lines 151-169
getAIResponse(st, i) ==
  IF phaseRef(st) # "interviewing" THEN Release(st, i)
  ELSE SetPc([st EXCEPT !.phase = "processing",
                        !.tasks[i].cl = st.tasks[i].cl[2]], i, "chat")

\* the respondent text handleUserFinishedSpeaking takes, lines 243-244
userTextOf(full, last) ==
  IF Trim(full) # Empty THEN Trim(full) ELSE Trim(last)

\* handleUserFinishedSpeaking, lines 239-262, after stopRecording()
hufsAfterStop(st, i) ==
  LET s1 == [st EXCEPT !.dg = disconnect(st.dg)]
      userText == userTextOf(s1.tasks[i].cl[1], s1.lastTranscript)
  IN IF userText = Empty THEN startListening(s1, i)
     ELSE getAIResponse(
            [s1 EXCEPT !.messages = Append(s1.messages,
                          [ role |-> "respondent", content |-> userText,
                            timestamp |-> now(s1) ]),
                       !.currentTranscript = Empty,
                       !.h.answered = TRUE], i)

\* handleUserFinishedSpeaking, lines 233-237, as chain i with closure cl
handleUserFinishedSpeaking(st, i, cl) ==
  LET s1 == [st EXCEPT !.isUserSpeaking = FALSE, !.tasks[i].cl = cl,
                       !.h.eot = TRUE]
  IN IF recorderIsRecording(s1.rec)
     THEN stopRecordingCall(s1, i, "recStop")
     ELSE hufsAfterStop(s1, i)

\* startInterview, lines 327-349
startInterview(st, i) ==
  IF st.phase # "idle" THEN st
  ELSE [st EXCEPT !.isEnding = FALSE, !.phase = "connecting",
                  !.error = NoErr, !.messages = << >>,
                  !.currentTranscript = Empty, !.turnCount = 0,
                  !.elapsedTime = 0, !.pl = newPlayer,
                  !.tasks[i] = [ pc |-> "startFetch", cl |-> st.rst,
                                 shouldEnd |-> FALSE ]]

\* startInterview, lines 351-375: the /start response is ok
startOk(st, i) ==
  speakText([st EXCEPT !.phase = "interviewing", !.timerOn = TRUE,
                       !.messages = << [ role |-> "ai",
                                         content |-> FirstMessage,
                                         timestamp |-> now(st) ] >>,
                       !.turnCount = 1], i)

\* startInterview, lines 379-386
startFail(st, i) ==
  Release([st EXCEPT !.error = StartErr, !.phase = "error"], i)

\* variant of chatOk that replaces the transcript by the new utterance
chatOkReplaces(st, i, text, shouldEnd) ==
  speakText([st EXCEPT !.messages = << [ role |-> "ai", content |-> text,
                                         timestamp |-> now(st) ] >>,
                       !.turnCount = st.turnCount + 1,
                       !.phase = "interviewing",
                       !.tasks[i].shouldEnd = shouldEnd], i)

\* variant of chatOk that leaves the turn count
chatOkKeepsCount(st, i, text, shouldEnd) ==
  speakText([st EXCEPT !.messages = Append(st.messages,
                           [ role |-> "ai", content |-> text,
                             timestamp |-> now(st) ]),
                       !.phase = "interviewing",
                       !.tasks[i].shouldEnd = shouldEnd], i)

\* getAIResponse, lines 175-190: the chat response is ok
chatOk(st, i, text, shouldEnd) ==
  speakText([st EXCEPT !.messages = Append(st.messages,
                           [ role |-> "ai", content |-> text,
                             timestamp |-> now(st) ]),
                       !.turnCount = st.turnCount + 1,
                       !.phase = "interviewing",
                       !.tasks[i].shouldEnd = shouldEnd], i)

\* the value of a property a JSON body does not have (kept apart from
\* every text)
Undefined == << "undefined" >>

\* the body of an ok response of /api/ai/chat, route.ts lines 175-181
\* (isFollowUp, currentPhase and turnCount, which the engine never reads,
\* are left out)
chatBody(text, shouldEnd) == [ message |-> text, shouldEnd |-> shouldEnd ]

\* data.<name>
field(data, name) == IF name \in DOMAIN data THEN data[name] ELSE Undefined

\* data.<name> ?? false
flag(data, name) == IF name \in DOMAIN data THEN data[name] ELSE FALSE

\* getAIResponse, lines 175-177: what it reads of the response body
chatData(st, i, data) ==
  chatOk(st, i, field(data, "response"), flag(data, "shouldEnd"))

\* getAIResponse, lines 171-173 and 200-207
chatFail(st, i) ==
  Release([st EXCEPT !.error = ChatErr, !.phase = "error"], i)

\* the setInterval callback of startTimer, lines 96-104; its
\* endInterviewInternal is the one of the first render
timerTick(st, i, e) ==
  LET s1 == [st EXCEPT !.elapsedTime = e,
                       !.h.deadline = st.h.deadline \/
                          (e >= MAX_INTERVIEW_DURATION_MS
                             /\ st.phase = "interviewing")]
  IN IF e >= MAX_INTERVIEW_DURATION_MS
     THEN endInterviewInternal(s1, i, FALSE)
     ELSE s1

\* endInterview(): the endInterviewInternal of the latest render
endInterview(st, i) ==
  endInterviewInternal(
    [st EXCEPT !.h.stopped = st.h.stopped \/ st.phase \notin Terminal],
    i, st.rec.isRecording)

\* the silence timer fires, lines 221-226
silenceFire(st, i) ==
  LET cl == st.silence.cl
      s1 == [st EXCEPT !.silence = SilenceOff]
  IN IF phaseRef(s1) = "interviewing" /\ cl # Inert
     THEN handleUserFinishedSpeaking(s1, i, cl)
     ELSE s1

----------------------------------------------------------------------------
(* The render that follows a handler: React commits the state written by   *)
(* the handler (n), re-creates the memoised callbacks whose dependencies   *)
(* changed and runs the effects of lines 298-321.                          *)

\* resetSilenceTimer (deps: recorder.isRecording) after the render
rstAfter(n) ==
  IF n.rec.isRecording # rec.isRecording
  THEN IF n.rec.isRecording THEN << n.dg.fullTranscript, gar >> ELSE Inert
  ELSE rst

\* what getAIResponse (deps: messages) reaches through startListening
garAfter(n) == IF n.messages # messages THEN rstAfter(n) ELSE gar

\* deepgram.fullTranscript + deepgram.transcript, line 299
combinedOf(d) == d.fullTranscript \o d.transcript

\* the transcript effect runs (deps: transcript, fullTranscript,
\* resetSilenceTimer)
syncRuns(n) ==
  \/ n.dg.transcript # dg.transcript
  \/ n.dg.fullTranscript # dg.fullTranscript
  \/ n.rec.isRecording # rec.isRecording

\* the test of line 303
syncArms(n) ==
  /\ syncRuns(n)
  /\ combinedOf(n.dg) # n.lastTranscript
  /\ Trim(combinedOf(n.dg)) # Empty

\* the error effects of lines 310-321 (the recorder's runs last)
errorAfter(n) ==
  IF n.rec.error # rec.error /\ n.rec.error # NoErr
     /\ phaseRef(n) = "interviewing"
  THEN n.rec.error
  ELSE IF n.dg.error # dg.error /\ n.dg.error # NoErr
          /\ phaseRef(n) = "interviewing"
  THEN n.dg.error
  ELSE n.error

Commit(n) ==
  /\ phase' = n.phase
  /\ messages' = n.messages
  /\ currentTranscript' =
       IF syncRuns(n) THEN combinedOf(n.dg) ELSE n.currentTranscript
  /\ elapsedTime' = n.elapsedTime
  /\ turnCount' = n.turnCount
  /\ isAISpeaking' = n.isAISpeaking
  /\ isUserSpeaking' = n.isUserSpeaking
  /\ error' = errorAfter(n)
  /\ timerOn' = n.timerOn
  /\ silence' = IF syncArms(n) THEN [ on |-> TRUE, cl |-> rstAfter(n) ]
                ELSE n.silence
  /\ isEnding' = n.isEnding
  /\ lastTranscript' =
       IF syncArms(n) THEN combinedOf(n.dg) ELSE n.lastTranscript
  /\ rst' = rstAfter(n)
  /\ gar' = garAfter(n)
  /\ tasks' = n.tasks
  /\ dg' = n.dg
  /\ rec' = n.rec
  /\ pl' = n.pl
  /\ ar' = n.ar
  /\ ap' = n.ap
  /\ srv' = n.srv
  /\ h' = IF syncArms(n) THEN [n.h EXCEPT !.late = FALSE] ELSE n.h

----------------------------------------------------------------------------
(* Actions of the engine: one per event.                                   *)

ClockValues == { TickMs, MAX_INTERVIEW_DURATION_MS }

\* the user presses start
StartInterview ==
  /\ phase = "idle" => FreeSlots(Cur) # {}
  /\ Commit(startInterview(Cur, Slot(Cur)))
  /\ UNCHANGED g

\* the /start request settles
StartResponse ==
  \E i \in Tasks, ok \in BOOLEAN :
    /\ tasks[i].pc = "startFetch"
    /\ Commit(IF ok THEN startOk(Cur, i) ELSE startFail(Cur, i))
    /\ UNCHANGED g

\* the /api/ai/tts request settles
TtsResponse ==
  \E i \in Tasks, ok \in BOOLEAN :
    /\ tasks[i].pc = "tts"
    /\ Commit(IF ok THEN play(Cur, i) ELSE speakTextFailed(Cur, i))
    /\ UNCHANGED g

\* decodeAudioData settles; on success the source node starts
DecodeDone ==
  \E i \in Tasks, ok \in BOOLEAN :
    /\ tasks[i].pc = "decode"
    /\ Commit(IF ok THEN SetPc([Cur EXCEPT !.pl.currentSource = i], i, "sound")
              ELSE processLoop([Cur EXCEPT !.pl.currentSource = 0], i))
    /\ UNCHANGED g

\* source.onended
PlaybackEnded ==
  \E i \in Tasks :
    /\ tasks[i].pc \in {"sound", "cut"}
    /\ Commit(processLoop([Cur EXCEPT !.pl.currentSource = 0], i))
    /\ UNCHANGED g

\* the setTimeout(.., 0) of AudioPlayer.stop()
AbortReset ==
  /\ pl.resetPending
  /\ Commit([Cur EXCEPT !.pl.aborted = FALSE, !.pl.resetPending = FALSE])
  /\ UNCHANGED g

\* fetchToken of the connect() of startListening settles
TokenResponse ==
  \E i \in Tasks, ok \in BOOLEAN :
    /\ tasks[i].pc = "token"
    /\ ok => FreeSockets(dg) # {}
    /\ Commit(afterConnect([Cur EXCEPT !.dg = connectFinish(dg, ok)], i))
    /\ UNCHANGED g

\* getUserMedia of the startRecording() of startListening settles
MicResponse ==
  \E i \in Tasks, ok \in BOOLEAN :
    /\ tasks[i].pc = "gum"
    /\ Commit(listenTail([Cur EXCEPT !.rec = IF ok THEN startRecordingOk(rec)
                                              ELSE startRecordingFail(rec)], i))
    /\ UNCHANGED g

\* the silence timer fires
SilenceTimer ==
  /\ silence.on
  /\ (phase = "interviewing" /\ silence.cl # Inert)
        => (FreeSlots(Cur) # {} /\ Len(messages) + 2 <= MaxMessages)
  /\ Commit(silenceFire(Cur, Slot(Cur)))
  /\ UNCHANGED g

\* the same, with the bound of SpecTurns
SilenceTimerTurns ==
  /\ silence.on
  /\ (phase = "interviewing" /\ silence.cl # Inert)
        => (FreeSlots(Cur) # {} /\ Len(messages) + 2 <= MaxTurnMessages)
  /\ Commit(silenceFire(Cur, Slot(Cur)))
  /\ UNCHANGED g

\* the recorder's stop event
RecorderStopped ==
  /\ rec.stopEvt
  /\ LET i == rec.waiter
         s1 == [Cur EXCEPT !.rec = stopRecordingEnd(rec)]
     IN Commit(IF tasks[i].pc = "recStop" THEN hufsAfterStop(s1, i)
               ELSE endTail(s1, i))
  /\ UNCHANGED g

\* the /api/ai/chat request settles
ChatResponse ==
  \E i \in Tasks, ok \in BOOLEAN, t \in AiTexts, e \in BOOLEAN :
    /\ tasks[i].pc = "chat"
    /\ ~ok => ~e
    /\ Commit(IF ok THEN chatData(Cur, i, chatBody(t, e))
              ELSE chatFail(Cur, i))
    /\ UNCHANGED g

\* the /score request settles (either way the phase becomes completed)
ScoreResponse ==
  \E i \in Tasks :
    /\ tasks[i].pc = "score"
    /\ Commit(Release([Cur EXCEPT !.phase = "completed"], i))
    /\ UNCHANGED g

\* the 1 Hz interval fires and reads the clock
Tick ==
  \E e \in ClockValues :
    /\ timerOn
    /\ e >= elapsedTime
    /\ (e >= MAX_INTERVIEW_DURATION_MS /\ ~isEnding) => FreeSlots(Cur) # {}
    /\ Commit(timerTick(Cur, Slot(Cur), e))
    /\ UNCHANGED g

\* the user (or the page) asks to stop
EndInterview ==
  /\ ~isEnding => FreeSlots(Cur) # {}
  /\ Commit(endInterview(Cur, Slot(Cur)))
  /\ UNCHANGED g

SockOpen ==
  \E s \in Sockets :
    /\ SockOpenEn(dg, s)
    /\ Commit([Cur EXCEPT !.dg = SockOpenDo(dg, s)])
    /\ g' = GOpen(g)

SockMessage ==
  \E s \in Sockets, f \in BOOLEAN, t \in EventTexts :
    /\ SockMessageEn(dg, s, f, t)
    /\ Commit([Cur EXCEPT !.dg = SockMessageDo(dg, f, t)])
    /\ UNCHANGED g

\* the same, with the history of the listening window kept (SpecTurns)
WindowMessage ==
  \E s \in Sockets, f \in BOOLEAN, t \in EventTexts :
    /\ SockMessageEn(dg, s, f, t)
    /\ Commit([Cur EXCEPT !.dg = SockMessageDo(dg, f, t),
                          !.h = HEvent(Cur.h, isUserSpeaking, f, t)])
    /\ UNCHANGED g

SockFail ==
  \E s \in Sockets :
    /\ SockFailEn(dg, g, s)
    /\ Commit([Cur EXCEPT !.dg = SockFailDo(dg, s)])
    /\ g' = GClose(g, dg, dg', AbnormalClose)

SockServerClose ==
  \E s \in Sockets :
    /\ SockServerCloseEn(dg, s)
    /\ Commit([Cur EXCEPT !.dg = SockServerCloseDo(dg, s)])
    /\ g' = GClose(g, dg, dg', NormalClose)

SockServerAbort ==
  \E s \in Sockets :
    /\ SockServerAbortEn(dg, g, s)
    /\ Commit([Cur EXCEPT !.dg = SockServerAbortDo(dg, s)])
    /\ g' = GClose(g, dg, dg', AbnormalClose)

SockClosed ==
  \E s \in Sockets :
    /\ SockClosedEn(dg, g, s)
    /\ Commit([Cur EXCEPT !.dg = SockClosedDo(dg, s)])
    /\ g' = GClose(g, dg, dg', closeCodeOf(dg, s))

SockCloseLost ==
  \E s \in Sockets :
    /\ SockCloseLostEn(dg, g, s)
    /\ Commit([Cur EXCEPT !.dg = SockCloseLostDo(dg, s)])
    /\ g' = GClose(g, dg, dg', AbnormalClose)

ReconnectTimer ==
  \E i \in 1..MaxTimers :
    /\ ReconnectTimerEn(dg, i)
    /\ Commit([Cur EXCEPT !.dg = ReconnectTimerDo(dg, i)])
    /\ UNCHANGED g

ReconnectToken ==
  \E ok \in BOOLEAN :
    /\ ReconnectTokenEn(dg, ok)
    /\ Commit([Cur EXCEPT !.dg = ReconnectTokenDo(dg, ok)])
    /\ UNCHANGED g

\* a caller other than the engine calls connect()
CallConnect ==
  /\ connectCallEn(dg)
  /\ Commit([Cur EXCEPT !.dg = connectCall(dg)])
  /\ g' = GConnect(g)

\* ... calls disconnect()
CallDisconnect ==
  /\ Commit([Cur EXCEPT !.dg = disconnect(dg)])
  /\ g' = GDisconnect(g)

\* ... calls sendAudio(chunk)
CallSendAudio ==
  /\ ~sendAudioDrops(dg) => dg.conv < MaxChunks
  /\ Commit([Cur EXCEPT !.dg = sendAudio(dg)])
  /\ g' = IF sendAudioDrops(dg) THEN g ELSE GHand(g)

\* chunk.arrayBuffer() of the k-th pending chunk resolves
ChunkConverted ==
  \E k \in 1..MaxChunks :
    /\ k <= dg.conv
    /\ Commit([Cur EXCEPT !.dg = sendAudioThen(dg)])
    /\ g' = GConverted(g, k, sendAudioTransmits(dg))

\* ... calls reset()
CallReset ==
  /\ Commit([Cur EXCEPT !.dg = reset(dg)])
  /\ g' = GReset(g)

\* a Results event with one of the longer texts arrives
LongMessage ==
  \E s \in Sockets, f \in BOOLEAN, t \in LongTexts :
    /\ LongMessageEn(dg, s, f, t)
    /\ Commit([Cur EXCEPT !.dg = SockMessageDo(dg, f, t)])
    /\ g' = GEvent(g, f, t)

\* the caller of the AudioRecorder calls start()
RecStart ==
  /\ ~isRecording(ar) => ar.starts < MaxStarts
  /\ Commit([Cur EXCEPT !.ar = start(ar)])
  /\ UNCHANGED g

\* getUserMedia of a pending start() settles
RecMedia ==
  \E ok \in BOOLEAN :
    /\ ar.starts > 0
    /\ ok => FreeStreams(ar) # {}
    /\ Commit([Cur EXCEPT !.ar = IF ok THEN startGranted(ar)
                                 ELSE startDenied(ar)])
    /\ UNCHANGED g

\* ... calls stop()
RecStop ==
  \E throws \in BOOLEAN :
    /\ Commit([Cur EXCEPT !.ar = stop(ar, throws)])
    /\ UNCHANGED g

\* the stop event of a MediaRecorder fires
RecStopEvent ==
  \E s \in Streams :
    /\ ar.evt[s]
    /\ Commit([Cur EXCEPT !.ar = onstop(ar, s)])
    /\ UNCHANGED g

\* a MediaRecorder delivers a chunk
RecData ==
  \E s \in Streams :
    /\ ar.state[s] = "recording"
    /\ ar.audioChunks < MaxBlobs
    /\ Commit([Cur EXCEPT !.ar = ondataavailable(ar, s)])
    /\ UNCHANGED g

\* a MediaRecorder reports an error
RecError ==
  \E s \in Streams :
    /\ ar.state[s] = "recording"
    /\ Commit([Cur EXCEPT !.ar = mediaRecorderOnerror(ar, s)])
    /\ UNCHANGED g

\* ... calls onDataAvailable(callback)
RecOnData ==
  /\ Commit([Cur EXCEPT !.ar = onDataAvailable(ar)])
  /\ UNCHANGED g

\* ... calls destroy()
RecDestroy ==
  /\ Commit([Cur EXCEPT !.ar = destroy(ar)])
  /\ UNCHANGED g

\* the caller of the AudioPlayer calls play(audioData)
QueuePlay ==
  \E suspended \in BOOLEAN :
    /\ ap.enq < MaxItems
    /\ ~ap.isPlaying => IdleLoops(ap) # {}
    /\ Commit([Cur EXCEPT !.ap = playerPlay(ap, ap.enq + 1, suspended)])
    /\ UNCHANGED g

\* audioContext.resume() settles
QueueResumed ==
  \E k \in Loops, ok \in BOOLEAN, suspended \in BOOLEAN :
    /\ ap.loops[k].pc = "resume"
    /\ Commit([Cur EXCEPT !.ap = resumed(ap, k, ok, suspended)])
    /\ UNCHANGED g

\* decodeAudioData settles
QueueDecoded ==
  \E k \in Loops, ok \in BOOLEAN, suspended \in BOOLEAN :
    /\ ap.loops[k].pc = "decode"
    /\ Commit([Cur EXCEPT !.ap = decoded(ap, k, ok, suspended)])
    /\ UNCHANGED g

\* a source node ends, by itself or after source.stop()
QueueEnded ==
  \E k \in Loops, suspended \in BOOLEAN :
    /\ ap.loops[k].pc \in { "sound", "cut" }
    /\ Commit([Cur EXCEPT !.ap = onended(ap, k, suspended)])
    /\ UNCHANGED g

\* ... calls stop()
QueueStop ==
  /\ ap.resets < MaxResets
  /\ Commit([Cur EXCEPT !.ap = stopPlayer(ap)])
  /\ UNCHANGED g

\* the setTimeout callback of a stop() runs
QueueReset ==
  /\ ap.resets > 0
  /\ Commit([Cur EXCEPT !.ap = resetAborted(ap)])
  /\ UNCHANGED g

\* the client sends a nextTurn request, or sends the last one again
ChatRequest ==
  \E retry \in BOOLEAN :
    /\ srv.sent < MaxAttempts
    /\ retry => srv.turns > 0
    /\ Commit([Cur EXCEPT !.srv = postReceived(srv, retry)])
    /\ UNCHANGED g

\* findUnique of a request resolves
ChatFound ==
  \E a \in Attempts :
    /\ srv.reqs[a].pc = "find"
    /\ Commit([Cur EXCEPT !.srv = postFound(srv, a)])
    /\ UNCHANGED g

\* the respondent row of a request is created
ChatRespondent ==
  \E a \in Attempts :
    /\ srv.reqs[a].pc = "respondent"
    /\ Commit([Cur EXCEPT !.srv = postRespondent(srv, a)])
    /\ UNCHANGED g

\* the generation of a request settles
ChatGenerated ==
  \E a \in Attempts, ok \in BOOLEAN :
    /\ srv.reqs[a].pc = "generate"
    /\ Commit([Cur EXCEPT !.srv = postGenerated(srv, a, ok)])
    /\ UNCHANGED g

\* the reply row of a request is created
ChatAi ==
  \E a \in Attempts :
    /\ srv.reqs[a].pc = "ai"
    /\ Commit([Cur EXCEPT !.srv = postAi(srv, a)])
    /\ UNCHANGED g

\* the session row update of a request resolves
ChatUpdated ==
  \E a \in Attempts :
    /\ srv.reqs[a].pc = "update"
    /\ Commit([Cur EXCEPT !.srv = postUpdated(srv, a)])
    /\ UNCHANGED g

Init ==
  /\ phase = "idle"
  /\ messages = << >>
  /\ currentTranscript = Empty
  /\ elapsedTime = 0
  /\ turnCount = 0
  /\ isAISpeaking = FALSE
  /\ isUserSpeaking = FALSE
  /\ error = NoErr
  /\ timerOn = FALSE
  /\ silence = SilenceOff
  /\ isEnding = FALSE
  /\ lastTranscript = Empty
  /\ rst = Inert
  /\ gar = Inert
  /\ tasks = [ i \in Tasks |-> FreeTask ]
  /\ dg = DgInit
  /\ rec = RecInit
  /\ pl = PlInit
  /\ ar = ArInit
  /\ ap = ApInit
  /\ srv = SrvInit
  /\ g = GInit
  /\ h = HInit

\* the events of the engine and of its collaborators' responses
EngineNext ==
  \/ StartInterview
  \/ StartResponse
  \/ TtsResponse
  \/ DecodeDone
  \/ PlaybackEnded
  \/ AbortReset
  \/ TokenResponse
  \/ MicResponse
  \/ SilenceTimer
  \/ RecorderStopped
  \/ ChatResponse
  \/ ScoreResponse
  \/ Tick
  \/ EndInterview

\* the session over a transcription connection that is closed only by the
\* client or, with the normal code, by the server
Next ==
  \/ EngineNext
  \/ SockOpen
  \/ SockMessage
  \/ SockServerClose
  \/ SockClosed

Spec == Init /\ [][Next]_vars

\* the session over several turns: no stop request, the clock not read,
\* the connection closed by the client only
NextTurns ==
  \/ StartInterview
  \/ StartResponse
  \/ TtsResponse
  \/ DecodeDone
  \/ PlaybackEnded
  \/ TokenResponse
  \/ MicResponse
  \/ SilenceTimerTurns
  \/ RecorderStopped
  \/ ChatResponse
  \/ SockOpen
  \/ WindowMessage
  \/ SockClosed

SpecTurns == Init /\ [][NextTurns]_vars

\* the events of a transcription connection that can fail
NetNext ==
  \/ SockOpen
  \/ SockFail
  \/ SockServerAbort
  \/ SockClosed
  \/ SockCloseLost
  \/ ReconnectTimer
  \/ ReconnectToken

\* the session up to its first listening window and its stop, over such a
\* connection
NextNet ==
  \/ StartInterview
  \/ StartResponse
  \/ TtsResponse
  \/ DecodeDone
  \/ PlaybackEnded
  \/ TokenResponse
  \/ MicResponse
  \/ AbortReset
  \/ ScoreResponse
  \/ EndInterview
  \/ NetNext

SpecNet == Init /\ [][NextNet]_vars

\* the transcription client driven by an arbitrary caller
NextDG ==
  \/ CallConnect
  \/ CallDisconnect
  \/ CallReset
  \/ SockMessage
  \/ SockServerClose
  \/ NetNext

SpecDG == Init /\ [][NextDG]_vars

\* the sending side of the transcription client: a caller that connects,
\* disconnects and hands audio chunks, over a connection that can fail
NextAudio ==
  \/ CallConnect
  \/ CallDisconnect
  \/ CallSendAudio
  \/ ChunkConverted
  \/ NetNext

SpecAudio == Init /\ [][NextAudio]_vars

\* the receiving side of the transcription client: Results events and
\* reset() over a connection the caller opens and closes
NextText ==
  \/ CallConnect
  \/ CallDisconnect
  \/ CallReset
  \/ ReconnectToken
  \/ SockOpen
  \/ SockClosed
  \/ SockServerClose
  \/ LongMessage

SpecText == Init /\ [][NextText]_vars

\* one AudioRecorder driven by an arbitrary caller
NextRec ==
  \/ RecStart
  \/ RecMedia
  \/ RecStop
  \/ RecStopEvent
  \/ RecData
  \/ RecError
  \/ RecOnData
  \/ RecDestroy

SpecRec == Init /\ [][NextRec]_vars

\* one AudioPlayer driven by an arbitrary caller
NextQueue ==
  \/ QueuePlay
  \/ QueueResumed
  \/ QueueDecoded
  \/ QueueEnded
  \/ QueueStop
  \/ QueueReset

SpecQueue == Init /\ [][NextQueue]_vars

\* the chat route under the requests of one session
NextChat ==
  \/ ChatRequest
  \/ ChatFound
  \/ ChatRespondent
  \/ ChatGenerated
  \/ ChatAi
  \/ ChatUpdated

SpecChat == Init /\ [][NextChat]_vars

\* the interval of startTimer fires when the session budget has elapsed
DeadlineTick ==
  /\ timerOn
  /\ ~isEnding => FreeSlots(Cur) # {}
  /\ Commit(timerTick(Cur, Slot(Cur), MAX_INTERVIEW_DURATION_MS))
  /\ UNCHANGED g

\* the session without a stop request, under fair scheduling
NextFair ==
  \/ StartInterview
  \/ StartResponse
  \/ TtsResponse
  \/ DecodeDone
  \/ PlaybackEnded
  \/ AbortReset
  \/ TokenResponse
  \/ MicResponse
  \/ SilenceTimer
  \/ RecorderStopped
  \/ ChatResponse
  \/ ScoreResponse
  \/ Tick
  \/ DeadlineTick
  \/ SockOpen
  \/ SockMessage
  \/ SockClosed

\* Every pending request of the engine settles (fetch, getUserMedia,
\* decodeAudioData, the recorder's stop event, the socket's open and close
\* events, the end of a playing source), every timer that is set fires, and
\* while the interval of startTimer is set the clock reaches the budget.
\* Nothing is assumed of the user and of the Results events.
Fairness ==
  /\ WF_vars(DeadlineTick)
  /\ WF_vars(StartResponse) /\ WF_vars(TtsResponse) /\ WF_vars(DecodeDone)
  /\ WF_vars(PlaybackEnded) /\ WF_vars(AbortReset) /\ WF_vars(TokenResponse)
  /\ WF_vars(MicResponse) /\ WF_vars(SilenceTimer) /\ WF_vars(RecorderStopped)
  /\ WF_vars(ChatResponse) /\ WF_vars(ScoreResponse)
  /\ WF_vars(SockOpen) /\ WF_vars(SockClosed)

SpecFair == Init /\ [][NextFair]_vars /\ Fairness

----------------------------------------------------------------------------
(* Properties.                                                             *)

NonTerminal == { "idle", "connecting", "interviewing", "processing" }

\* a step appends an utterance of the interviewer
AiAppended ==
  /\ Len(messages') = Len(messages) + 1
  /\ messages'[Len(messages')].role = "ai"

\* a step issues a request to the turn generator
ChatIssued ==
  \E i \in Tasks : tasks'[i].pc = "chat" /\ tasks[i].pc # "chat"

\* a step handles the outcome of a request to the turn generator
ChatSettled ==
  \E i \in Tasks : tasks[i].pc = "chat" /\ tasks'[i].pc # "chat"

\* capture, transcription connection, playback and silence timer are stopped
TornDown(r, d, p, sil) ==
  /\ ~recorderIsRecording(r)
  /\ ~r.isRecording
  /\ d.wsRef = 0
  /\ ~d.isConnected
  /\ ~p.isPlaying
  /\ ~sil.on

\* C1: once the phase is completed or error, no later event changes the
\* phase, appends an utterance or restarts listening.
C1_TerminalAbsorbing ==
  [][ (phase \in Terminal) =>
        ( /\ phase' = phase
          /\ messages' = messages
          /\ isUserSpeaking' => isUserSpeaking ) ]_vars

AllowedPhaseChanges ==
  { << "idle", "connecting" >>, << "connecting", "interviewing" >>,
    << "interviewing", "processing" >>, << "processing", "interviewing" >>,
    << "processing", "completed" >> }
  \cup { << p, "error" >> : p \in NonTerminal }
  \cup { << p, "completed" >> : p \in NonTerminal }

\* C3: every phase change out of a non-terminal phase is one of the allowed
\* ones, and a start request in a phase other than idle changes nothing.
C3_PhaseChanges ==
  /\ [](phase # "idle" => startInterview(Cur, Slot(Cur)) = Cur)
  /\ [][ (phase \in NonTerminal /\ phase' # phase)
            => << phase, phase' >> \in AllowedPhaseChanges ]_vars

\* C4: the tick that finds the session budget used up while the phase is
\* interviewing puts the phase to processing, and from then on no request to
\* the turn generator is issued and no interviewer utterance is appended.
C4_Deadline ==
  [][ ( /\ (~h.deadline /\ h'.deadline) => phase' = "processing"
        /\ h.deadline => (~ChatIssued /\ ~AiAppended) ) ]_vars

\* C5: after an explicit stop in a non-terminal phase the phase is processing
\* or completed, never error and never interviewing again, and once it is
\* completed capture, transcription and playback are stopped.
C5_StopCompletes ==
  h.stopped =>
    /\ phase \in { "processing", "completed" }
    /\ phase = "completed" => TornDown(rec, dg, pl, SilenceOff)

\* C6: the step of the hard deadline or of an explicit stop that changes the
\* phase has stopped capture, disconnected the transcription client, stopped
\* playback and cancelled the silence timer.
C6_TeardownAtomic ==
  [][ ( /\ phase' # phase
        /\ \/ ~h.deadline /\ h'.deadline
           \/ ~h.stopped /\ h'.stopped )
        => TornDown(rec', dg', pl', silence') ]_vars

\* C7: a failed request to the turn generator never puts the phase to error
\* (it is retried, then replaced by a fallback utterance).
C7_GeneratorFailure ==
  [][ ChatSettled => phase' # "error" ]_vars

\* C8: a failed microphone acquisition puts the phase to error, with a
\* message.
C8_MicFailure ==
  [][ (rec'.error = MicErr /\ rec.error # MicErr)
        => (phase' = "error" /\ error' # NoErr) ]_vars

\* C9: when the transcription client gives up reconnecting during the
\* interview, the phase becomes error.
C9_ReconnectExhausted ==
  [][ (phase = "interviewing" /\ dg'.error = ReconnErr /\ dg.error # ReconnErr)
        => phase' = "error" ]_vars

\* the delays of the 1st, 2nd and 3rd reconnection
ReconnectDelays == << 2 * BaseDelayMs, 4 * BaseDelayMs, 8 * BaseDelayMs >>

\* C10: consecutive abnormal closures without a successful open schedule at
\* most 3 reconnections, after 2 s, 4 s and 8 s; each of the first three
\* schedules one; a 4th schedules nothing and sets the error.
C10_ReconnectPolicy ==
  /\ [] /\ Len(g.delays) <= MaxReconnect
        /\ g.delays = SubSeq(ReconnectDelays, 1, Len(g.delays))
        /\ Len(g.delays) = Min(g.closures, MaxReconnect)
  /\ [][ (g'.closures = g.closures + 1 /\ g.closures >= MaxReconnect)
           => ( /\ g'.last = 0
                /\ dg'.timers = dg.timers
                /\ dg'.error = ReconnErr ) ]_vars

\* four abnormal closures in a row have been handled
C10_Witness ==
  /\ g.closures = MaxReconnect + 1
  /\ g.delays = ReconnectDelays
  /\ dg.error = ReconnErr

\* C11: from a disconnect() call of the caller until its next connect() call
\* no new transcription connection is opened.
C11_NoReconnectAfterDisconnect ==
  [][ g.off => (\A s \in Sockets :
                  dg'.socks[s] = "CONNECTING" => dg.socks[s] = "CONNECTING") ]_vars

\* C12: sendAudio called while the connection is absent or not open changes
\* nothing of the client and starts no conversion, and no chunk handed to
\* sendAudio between a disconnect() and the caller's next connect() is
\* transmitted.
C12_SendAudioDropped ==
  /\ [](sendAudioDrops(dg) => sendAudio(dg) = dg)
  /\ [](g.tx # << >> => ~g.tx[1].off)

\* C13: a chunk whose conversion was pending when disconnect() was called is
\* never transmitted (on the connection opened afterwards).
C13_NoChunkAcrossWindows ==
  g.tx # << >> => ~g.tx[1].cut

\* the concatenation of the texts of a sequence
RECURSIVE Concat(_)
Concat(ts) == IF ts = << >> THEN Empty ELSE Head(ts) \o Concat(Tail(ts))

\* C15: since the last reset(), fullTranscript is the concatenation in
\* arrival order of the texts of the final events with non-blank text and
\* transcript is the text of the last event if it was interim, else empty;
\* reset() empties both and leaves the connection and the reconnection
\* counter as they are.
C15_TextState ==
  /\ dg.fullTranscript = Concat(g.finals)
  /\ dg.transcript = IF g.lastEvent # << >> /\ ~g.lastEvent[1]
                     THEN g.lastEvent[2] ELSE Empty
  /\ reset(dg).fullTranscript = Empty
  /\ reset(dg).transcript = Empty
  /\ reset(dg).wsRef = dg.wsRef
  /\ reset(dg).socks = dg.socks
  /\ reset(dg).isConnected = dg.isConnected
  /\ reset(dg).reconnectAttempt = dg.reconnectAttempt
  /\ reset(dg).timers = dg.timers
  /\ reset(dg).tokenReqs = dg.tokenReqs

\* two final events with non-blank text, then an interim one, have arrived
\* on an open connection
C15_Witness ==
  /\ g.finals = << << "a" >>, << " ", "a" >> >>
  /\ g.lastEvent = << FALSE, << "a", "a" >> >>
  /\ dg.fullTranscript = << "a", " ", "a" >>
  /\ dg.transcript = << "a", "a" >>
  /\ dg.reconnectAttempt = 0
  /\ dg.isConnected

\* a step appends an utterance of the respondent
RespondentAppended ==
  /\ Len(messages') = Len(messages) + 1
  /\ messages'[Len(messages')].role = "respondent"

\* C14: the respondent utterance appended at the end of a listening window
\* holds only text received during that window; in particular none is
\* appended for a window that received no non-blank text.
C14_WindowTextOnly ==
  [][ RespondentAppended => h.spoke ]_vars

\* C16: in a listening window that has received interim events only, the
\* silence timer that signals end-of-turn was armed at or after the last
\* event received (it fires one quiescence window after it was armed).
C16_QuiescenceFromLastEvent ==
  [][ (h'.eot /\ isUserSpeaking /\ ~h.finalSeen) => ~h.late ]_vars

\* C17: end-of-turn handling runs only while the engine is listening: the
\* phase is interviewing, capture is active, isUserSpeaking is set and the
\* interviewer is not speaking.
C17_EndOfTurnWhileListening ==
  [][ h'.eot => ( /\ phase = "interviewing"
                  /\ rec.isRecording
                  /\ isUserSpeaking
                  /\ ~isAISpeaking ) ]_vars

\* C18: for a listening window that received no non-blank text no turn is
\* declared complete (no respondent utterance is appended, no request to the
\* turn generator is issued), and no respondent utterance in the transcript
\* has empty text.
C18_NoSpeechNoTurn ==
  /\ [](\A k \in 1..Len(messages) :
          messages[k].role = "respondent" => messages[k].content # Empty)
  /\ [][ ~h.spoke => (~RespondentAppended /\ ~ChatIssued) ]_vars

\* the number of interviewer utterances in a transcript
AiCount(ms) == Cardinality({ k \in 1..Len(ms) : ms[k].role = "ai" })

\* C19: the turn count equals the number of interviewer utterances in the
\* transcript; a step never lowers it, raises it by exactly 1 when it
\* appends an interviewer utterance and leaves it otherwise.
C19_TurnCount ==
  /\ [](turnCount = AiCount(messages))
  /\ [][ (turnCount' >= turnCount)
          /\ (AiAppended => turnCount' = turnCount + 1)
          /\ (~AiAppended => turnCount' = turnCount) ]_vars

\* the second interviewer turn is complete, after a respondent utterance
C19_Witness ==
  /\ turnCount = 2
  /\ Len(messages) = 3
  /\ messages[2].role = "respondent"
  /\ messages[3].role = "ai"

\* C20: once the opening utterance is in the transcript, a step that changes
\* messages appends exactly one utterance and leaves the earlier ones as
\* they are, and the timestamps never decrease along the transcript.
C20_AppendOnly ==
  /\ [](\A k \in 1..(Len(messages) - 1) :
          messages[k].timestamp <= messages[k + 1].timestamp)
  /\ [][ (messages # << >> /\ messages' # messages)
          => ( /\ Len(messages') = Len(messages) + 1
               /\ SubSeq(messages', 1, Len(messages)) = messages ) ]_vars

\* three utterances, the last appended at a later clock reading than the first
C20_Witness ==
  /\ Len(messages) = 3
  /\ messages[1].timestamp < messages[2].timestamp
  /\ messages[2].timestamp < messages[3].timestamp

\* C21: the turn count never exceeds the turn maximum, and from processing
\* with the turn count at the maximum the phase does not return to
\* interviewing (whatever end flag the turn generator returns).
C21_TurnLimit ==
  /\ [](turnCount <= maxTurns(TotalQuestions))
  /\ [][ (phase = "processing" /\ turnCount >= maxTurns(TotalQuestions))
          => phase' # "interviewing" ]_vars

\* C22: every interviewer utterance in the transcript is a text the
\* collaborator returned (the opening by /start, the later ones by the turn
\* generator).
C22_UtteranceIsReply ==
  \A k \in 1..Len(messages) :
    messages[k].role = "ai" =>
      messages[k].content \in (IF k = 1 THEN { FirstMessage } ELSE AiTexts)

\* C23: a listening window begins only after the capture and the connection
\* of the previous window are fully stopped: never two AudioRecorder objects
\* recording, and never a second WebSocket beside one whose close event has
\* not been processed yet.
C23_NoOverlap ==
  /\ ~rec.orphan
  /\ Cardinality({ s \in Sockets : dg.socks[s] # "FREE" }) <= 1

\* C24: in every state with phase error a cause is recorded and everything
\* the engine owns is stopped: capture, transcription connection, playback,
\* quiescence timer and session timer.
C24_ErrorTornDown ==
  phase = "error" =>
    /\ error # NoErr
    /\ TornDown(rec, dg, pl, silence)
    /\ ~timerOn

\* C25: connect() opens the connection only when its credential request has
\* settled, and a listening window whose connect() has settled goes on to
\* start the capture only when connect() has opened a connection.
C25_ConnectFailsCaller ==
  [][ /\ \A s \in Sockets :
           (dg.socks[s] = "FREE" /\ dg'.socks[s] # "FREE") =>
             \E i \in Tasks : tasks[i].pc = "token" /\ tasks'[i].pc # "token"
      /\ \A i \in Tasks :
           (tasks[i].pc = "token" /\ tasks'[i].pc = "gum") =>
             (dg'.wsRef # 0 /\ dg'.socks[dg'.wsRef] \in { "CONNECTING", "OPEN" })
    ]_vars

\* the microphone streams that are acquired and not released
LiveStreams == { s \in Streams : ar.tracks[s] = "live" }

\* C26: at most one capture session at a time: never two microphone streams
\* acquired; start() on a recorder that is recording begins no acquisition,
\* and a start() that fails with the already-recording error changes nothing
\* else.
C26_OneCapture ==
  /\ [](Cardinality(LiveStreams) <= 1)
  /\ [][ (ar.recording => ar'.starts <= ar.starts)
         /\ ((ar'.last = AlreadyErr /\ ar.last # AlreadyErr)
               => ar' = [ar EXCEPT !.last = AlreadyErr]) ]_vars

\* C27: stop() is idempotent: no stop() call reports an error, whatever the
\* state of the recorder, and none is left without an outcome.
C27_StopIdempotent ==
  /\ ar.last \notin { NotRecordingErr, InvalidStateErr }
  /\ ~ar.hung

\* C28: once stop() has completed, the microphone is released: the recorder
\* holds no stream and no stream has live tracks.
C28_StopReleasesDevice ==
  ar.last = "stopped" => (ar.stream = 0 /\ LiveStreams = {})

\* the processQueue() invocations that are running, and those whose source
\* node is playing
Draining == { k \in Loops : ap.loops[k].pc # "free" }
Sounding == { k \in Loops : ap.loops[k].pc = "sound" }

\* buffer y has ended or was skipped: it was handed to play() and neither
\* waits in the queue nor is held by a loop
Finished(y) ==
  /\ y <= ap.enq
  /\ \A i \in 1..Len(ap.audioQueue) : ap.audioQueue[i] # y
  /\ \A k \in Loops : ap.loops[k].item # y

\* C29: as long as stop() has not been called, the buffers are played in
\* the order of the play() calls and one at a time: at most one
\* processQueue() runs, at most one source node plays, a buffer plays only
\* when every earlier buffer has ended or was skipped, and the buffers start
\* in increasing order.
C29_FifoOneAtATime ==
  /\ [](~ap.stopped =>
         ( /\ Cardinality(Draining) <= 1
           /\ Cardinality(Sounding) <= 1
           /\ \A k \in Sounding :
                \A y \in 1..(ap.loops[k].item - 1) : Finished(y) ))
  /\ [][ (~ap'.stopped /\ ap'.started # ap.started)
           => ap'.started > ap.started ]_vars

\* the second buffer plays after the first one has ended, the third waits
C29_Witness ==
  /\ ~ap.stopped
  /\ ap.audioQueue = << 3 >>
  /\ \E k \in Loops : ap.loops[k] = [ pc |-> "sound", item |-> 2 ]
  /\ Finished(1)

\* C30: stop() cancels the playback at once and clears the queue: the step
\* of stop() leaves the queue empty and no source node playing, and no
\* buffer handed to play() before the last stop() plays afterwards.
C30_StopCancels ==
  /\ [](\A k \in Sounding : ap.loops[k].item > ap.mark)
  /\ [][ (ap'.resets > ap.resets)
           => (ap'.audioQueue = << >> /\ \A k \in Loops :
                                          ap'.loops[k].pc # "sound") ]_vars

\* C31: a buffer whose decoding or start fails is skipped alone: in the step
\* of the failure nothing is played, the loop takes the next buffer of the
\* queue when there is one and the player was not stopped, and else ends as
\* it ends after a played buffer (isPlaying cleared, play() resolved).
C31_FailureSkipsOne ==
  [][ \A k \in Loops :
        (ap.loops[k].pc = "decode" /\ ap'.failed # ap.failed
           /\ ap'.failed = ap.loops[k].item) =>
          ( (ap'.started = ap.started) /\
            (IF ap.audioQueue # << >> /\ ~ap.aborted
             THEN (ap'.loops[k].item = Head(ap.audioQueue))
                  /\ (ap'.loops[k].pc \in { "decode", "resume" })
                  /\ (ap'.audioQueue = Tail(ap.audioQueue))
                  /\ (ap'.isPlaying = ap.isPlaying)
             ELSE (ap'.loops[k] = FreeLoop) /\ ~ap'.isPlaying) ) ]_vars

\* the first buffer failed to decode and the second one plays
C31_Witness ==
  /\ ~ap.stopped
  /\ ap.failed = 1
  /\ ap.started = 2
  /\ \E k \in Loops : ap.loops[k] = [ pc |-> "sound", item |-> 2 ]

\* C32: a failed speech synthesis is not fatal: in the step that handles the
\* failure the phase does not become error, the transcript is kept,
\* isAISpeaking is cleared, and the call chain goes on: to the teardown when
\* the end flag is set, else to the next listening window, unless the session
\* is ending or over or another call chain is already handling the next
\* respondent turn (it is the one that opens the next window).
C32_TtsFailureNonFatal ==
  [][ h'.ttsFailed =>
        \E i \in Tasks :
          (tasks[i].pc = "tts") /\ (tasks'[i].pc # "tts")
          /\ (phase' = "error" => phase = "error")
          /\ (messages' = messages)
          /\ ~isAISpeaking'
          /\ (IF tasks[i].shouldEnd
              THEN isEnding' /\ (tasks'[i].pc \in { "endRecStop", "score", "free" })
              ELSE IF (phase \in Terminal) \/ (phase = "processing" /\ isEnding)
              THEN tasks'[i].pc = "free"
              ELSE \/ (tasks'[i].pc \in { "token", "gum" }) /\ isUserSpeaking'
                   \/ (phase = "processing")
                        /\ (\E j \in Tasks \ { i } :
                              tasks'[j].pc \in { "recStop", "chat" })) ]_vars

\* the synthesis of the second interviewer utterance has failed and the next
\* listening window is being opened
C32_Witness ==
  /\ h.ttsFailed
  /\ phase = "interviewing"
  /\ Len(messages) = 3
  /\ messages[3].role = "ai"
  /\ ~isAISpeaking
  /\ \E i \in Tasks : tasks[i].pc = "token"

\* the rows of the respondent stored for nextTurn request t
RespondentRows(t) ==
  { k \in 1..Len(srv.transcripts) :
      srv.transcripts[k].speaker = "respondent" /\ srv.transcripts[k].turn = t }

\* C33: a nextTurn request and its retry leave the persisted state of one
\* request: the respondent utterance is stored once per request and the
\* persisted turn count is at most the number of requests.
C33_RetrySafe ==
  /\ \A t \in 1..srv.turns : Cardinality(RespondentRows(t)) <= 1
  /\ srv.turnCount <= srv.turns

\* C34: text that the service has not finalized is not lost when the phase
\* goes from interviewing to processing: when there is interim text, the
\* respondent utterance appended at the end of turn is the finalized text
\* followed by that interim text, and a listening window that has text and
\* is ended by the deadline or a stop gets its utterance appended too.
C34_InterimKept ==
  [][ ((RespondentAppended /\ Trim(dg.transcript) # Empty) =>
         messages'[Len(messages')].content = Trim(combinedOf(dg)))
      /\ ((phase = "interviewing" /\ phase' = "processing" /\ isUserSpeaking
            /\ Trim(combinedOf(dg)) # Empty) => RespondentAppended) ]_vars

\* the positions of a call chain inside speakText
Speaking == { "tts", "decode", "sound", "cut" }

\* C35: when the turn generator returns its end flag set, the returned
\* closing utterance is appended and handed to speech synthesis; when
\* speakText has settled the chain goes into the teardown (which ends in
\* phase completed); and while the chain of that response is alive no
\* listening window is opened.
C35_EndFlagEndsSession ==
  [][ \A i \in Tasks :
        ((tasks[i].pc = "chat" /\ tasks'[i].shouldEnd) =>
            (Len(messages') = Len(messages) + 1
               /\ messages'[Len(messages')].role = "ai"
               /\ messages'[Len(messages')].content \in AiTexts
               /\ tasks'[i].pc = "tts"))
        /\ ((tasks[i].shouldEnd /\ tasks[i].pc \in Speaking
               /\ tasks'[i].pc \notin Speaking) =>
              (isEnding' /\ tasks'[i].pc \in { "endRecStop", "score", "free" }))
        /\ (tasks[i].shouldEnd => ~(isUserSpeaking' /\ ~isUserSpeaking)) ]_vars

\* C36: the close event of a socket closed by disconnect(), delivered when a
\* later connect() has stored another socket, leaves that socket the current
\* one, leaves sendAudio transmitting to it and schedules no reconnection.
C36_OldCloseIgnored ==
  [][ \A s \in Sockets :
        (dg.wsRef # 0 /\ s # dg.wsRef
           /\ dg.socks[s] = "CLOSING" /\ dg'.socks[s] = "FREE") =>
          (dg'.wsRef = dg.wsRef
             /\ (sendAudioTransmits(dg) => sendAudioTransmits(dg'))
             /\ dg'.timers = dg.timers) ]_vars

\* C37: at most one request to the turn generator is outstanding, and a
\* listening window produces at most one respondent utterance and one
\* request: no respondent utterance is appended, and no request issued, for
\* a window that has already produced its utterance.
C37_OneTurnPerWindow ==
  [](Cardinality({ i \in Tasks : tasks[i].pc = "chat" }) <= 1)
  /\ [][ h.answered =>
           (~RespondentAppended
              /\ (\A i \in Tasks :
                    tasks'[i].pc = "chat" => tasks[i].pc = "chat")) ]_vars

\* C38: once the session timer has been started the phase eventually is
\* completed or error and stays so, under the fairness of SpecFair.
C38_Terminates ==
  [](timerOn => <>[](phase \in Terminal))

\* C39: the teardown runs at most once in a session: isEndingRef stays set,
\* and a call of endInterviewInternal that finds it set leaves the phase, the
\* session timer, the silence timer, the transcription client and the
\* recorder as they are, does not stop the player and issues no scoring
\* request.
C39_TeardownOnce ==
  [][ (isEnding => isEnding')
      /\ (h'.again =>
            (phase' = phase /\ timerOn' = timerOn /\ silence' = silence
               /\ dg' = dg /\ rec' = rec
               /\ pl'.aborted = pl.aborted
               /\ pl'.resetPending = pl.resetPending
               /\ (\A i \in Tasks :
                     (tasks'[i].pc \in { "score", "endRecStop" })
                       => tasks'[i] = tasks[i]))) ]_vars

\* a call of endInterviewInternal has found isEndingRef set while requests
\* of the session were still pending
C39_Witness ==
  h.again /\ isEnding /\ (\E i \in Tasks : tasks[i].pc # "free")

\* C40: a buffer handed to play() after a stop() is not left behind: once
\* the timers of the stop() calls have run, a buffer that waits in the queue
\* has a processQueue() running that will take it.
C40_NotStranded ==
  (ap.audioQueue # << >> /\ ap.resets = 0) => Draining # {}

====
